---- MODULE Spec2Model ----
(***************************************************************************)
(* Return Risk Predictor (src/app.py): the risk label computed from the    *)
(* classifier's probability, and the feedback form's read-modify-write of  *)
(* feedback.csv in a GitHub repository, with the CSV conversions pandas    *)
(* applies on the way in (read_csv) and on the way out (to_csv).           *)
(*                                                                         *)
(* Texts are sequences of one-character strings.  A table in the store is  *)
(* the data lines of feedback.csv: a sequence of rows, each row a record   *)
(* of five texts.  A DataFrame is a sequence of rows of typed cells.       *)
(***************************************************************************)
EXTENDS Integers, Sequences, FiniteSets, TLC

(* ------------------------------ bounds -------------------------------- *)

\* Form submissions over a whole run, all sessions together.
MaxSubmits == 2

\* datetime.now() reads second 0..MaxClock of the run.
MaxClock == 0

\* The classifier's probability is k/ProbSteps, k in 0..ProbSteps.
ProbSteps == 200

(* ------------------------- program constants -------------------------- *)

\* return_probability > 0.05, as the fraction ThresholdNum/ThresholdDen
ThresholdNum == 5
ThresholdDen == 100

\* st_star_rating(defaultValue=4)
DefaultRating == 4

\* Two browser sessions, each running the script on its own.
Sessions == {"s1", "s2"}

Columns == {"Name", "Usability_Rating", "Accuracy_Relevance_Rating",
            "Suggestions", "Timestamp"}

(* ------------------------------ texts --------------------------------- *)

DigitChars == <<"0", "1", "2", "3", "4", "5", "6", "7", "8", "9">>

IsDigit(c) == \E i \in 1..10 : DigitChars[i] = c

DigitVal(c) == (CHOOSE i \in 1..10 : DigitChars[i] = c) - 1

RECURSIVE LStrip(_)
LStrip(s) == IF s # <<>> /\ Head(s) = " " THEN LStrip(Tail(s)) ELSE s

RECURSIVE RStrip(_)
RStrip(s) ==
    IF s # <<>> /\ s[Len(s)] = " " THEN RStrip(SubSeq(s, 1, Len(s) - 1)) ELSE s

\* A strip that strips nothing.
strip_nothing(s) == s

\* str.strip(): the text without its leading and trailing whitespace.
strip(s) == RStrip(LStrip(s))

\* not name.strip()
NameMissing(name) == strip(name) = <<>>

RECURSIVE IntOf(_)
\* The value of a text of digits ("007" is 7).
IntOf(s) == IF s = <<>> THEN 0
            ELSE 10 * IntOf(SubSeq(s, 1, Len(s) - 1)) + DigitVal(s[Len(s)])

RECURSIVE StrOfInt(_)
\* str(n) for n >= 0.
StrOfInt(n) == IF n < 10 THEN <<DigitChars[n + 1]>>
               ELSE StrOfInt(n \div 10) \o <<DigitChars[(n % 10) + 1]>>

RECURSIVE DropTrailingZeros(_)
DropTrailingZeros(s) ==
    IF s # <<>> /\ s[Len(s)] = "0"
    THEN DropTrailingZeros(SubSeq(s, 1, Len(s) - 1)) ELSE s

AllDigits(s) == \A i \in 1..Len(s) : IsDigit(s[i])

\* The text, spaces around it ignored, is a run of digits: the parser
\* converts it to int64.
IsIntText(s) == LET t == strip(s) IN t # <<>> /\ AllDigits(t)

DotAt(s) == CHOOSE i \in 1..Len(s) : s[i] = "."

\* The text, spaces around it ignored, is digits with one decimal point and
\* at least one digit: the parser converts it to float64.
IsFloatText(s) ==
    LET t == strip(s) IN
    /\ Cardinality({i \in 1..Len(t) : t[i] = "."}) = 1
    /\ Len(t) >= 2
    /\ \A i \in 1..Len(t) : t[i] = "." \/ IsDigit(t[i])

IsNumText(s) == IsIntText(s) \/ IsFloatText(s)

(* ---------------------- DataFrame cells and CSV ------------------------ *)

\* python values of a cell: a str, an int, a float (integer part, fraction
\* digits without trailing zeros), or NaN.
StrCell(s) == [t |-> "str", n |-> 0, s |-> s]
IntCell(n) == [t |-> "int", n |-> n, s |-> <<>>]
FloatCell(ip, fp) == [t |-> "float", n |-> ip, s |-> DropTrailingZeros(fp)]
NaNCell == [t |-> "nan", n |-> 0, s |-> <<>>]

\* The texts read_csv takes for a missing value (keep_default_na), among
\* those writable in the alphabet of this model.
NaValues == { <<>>, <<"N", "A">> }

IsNA(s) == s \in NaValues

\* The dtype read_csv infers for a column of texts: int64 when every field
\* is an integer and none is missing, float64 when every field present is
\* numeric, object otherwise.
ColumnKind(col) ==
    LET present == {i \in 1..Len(col) : ~IsNA(col[i])} IN
    IF present = 1..Len(col) /\ \A i \in present : IsIntText(col[i])
    THEN "int64"
    ELSE IF \A i \in present : IsNumText(col[i]) THEN "float64"
    ELSE "object"

FloatOf(s) ==
    LET t == strip(s) IN
    IF IsIntText(t) THEN FloatCell(IntOf(t), <<>>)
    ELSE LET d == DotAt(t) IN
         FloatCell(IntOf(SubSeq(t, 1, d - 1)), SubSeq(t, d + 1, Len(t)))

\* One field converted under its column's dtype.
ParseCell(s, kind) ==
    IF IsNA(s) THEN NaNCell
    ELSE IF kind = "int64" THEN IntCell(IntOf(strip(s)))
    ELSE IF kind = "float64" THEN FloatOf(s)
    ELSE StrCell(s)

ColumnOf(table, c) == [i \in 1..Len(table) |-> table[i][c]]

\* pd.read_csv: the table of texts as a DataFrame of typed cells.
read_csv(table) ==
    [i \in 1..Len(table) |->
        [c \in Columns |-> ParseCell(table[i][c], ColumnKind(ColumnOf(table, c)))]]

\* One cell as to_csv writes it: NaN as the empty field, a number by its repr.
FormatCell(cell) ==
    IF cell.t = "nan" THEN <<>>
    ELSE IF cell.t = "int" THEN StrOfInt(cell.n)
    ELSE IF cell.t = "float"
         THEN StrOfInt(cell.n) \o <<".">> \o (IF cell.s = <<>> THEN <<"0">> ELSE cell.s)
    ELSE cell.s

\* DataFrame.to_csv(index=False): the data lines as texts.
to_csv(df) == [i \in 1..Len(df) |-> [c \in Columns |-> FormatCell(df[i][c])]]

\* pd.concat([df_existing, pd.DataFrame([feedback_entry])], ignore_index=True)
concat(df, row) == Append(df, row)

(* ------------------------------ inputs -------------------------------- *)

\* What the user may type in "Your Name *".
NameInputs == { <<>>, <<" ">>, <<"A">>, <<"N", "A">> }

\* What the user may type in "Suggestions for Improvement" (optional).
SuggestionInputs == { <<>> }

\* What a star widget may return.
RatingInputs == {DefaultRating}

\* The seconds at which datetime.now() may be read.
Seconds == 0..MaxClock

\* datetime.now().strftime("%Y-%m-%d %H:%M:%S") at second `sec` of the run.
Timestamp(sec) ==
    <<"2", "0", "2", "5", "-", "1", "2", "-", "0", "1", " ",
      "1", "0", ":", "0", "0", ":", "0">> \o StrOfInt(sec)

(* ------------------------------- state -------------------------------- *)

VARIABLES
    store,              \* feedback.csv on the branch: absent, or its data lines
    submits,            \* form submissions so far
    lastWrite,          \* the last accepted write: by whom, on what read, over what
    pc,                 \* per session: where its script run stands
    feedback_entry,     \* per session: the submitted form as a row of cells
    contents,           \* per session: the local `contents` (its sha), or unbound
    found,              \* per session: what the reads of this run met
    df_updated,         \* per session: the local df_updated
    outcome,            \* per session: the message the handler showed
    storeCalls,         \* per session: store requests issued by the handler
    writeCalls,         \* per session: update_file/create_file calls issued
    df_feedback,        \* per session: what the feedback table section shows
    return_probability, \* k, for the probability k/ProbSteps; -1 before Predict
    prediction,         \* the risk label
    risk_message        \* the message under the label

vars == <<store, submits, lastWrite, pc, feedback_entry, contents, found,
          df_updated, outcome, storeCalls, writeCalls, df_feedback,
          return_probability, prediction, risk_message>>

predictVars == <<return_probability, prediction, risk_message>>

feedbackVars == <<store, submits, lastWrite, pc, feedback_entry, contents,
                  found, df_updated, outcome, storeCalls, writeCalls, df_feedback>>

Absent == [exists |-> FALSE, rows |-> <<>>]
File(rows) == [exists |-> TRUE, rows |-> rows]

\* A sha that is the same for every content.
Sha_Constant(file) == <<>>

\* contents.sha: a blob's sha names its content.
Sha(file) == file.rows

Unbound == [bound |-> FALSE, sha |-> <<>>]
Bound(sha) == [bound |-> TRUE, sha |-> sha]

NoEntry == <<>>
NoTable == [kind |-> "nothing", df |-> <<>>]
NoWrite == [by |-> "nobody", found |-> "none", contents |-> Unbound, before |-> Absent]

\* The dict feedback_entry as the one row of pd.DataFrame([feedback_entry]).
Entry(name, usability, accuracy, suggestions, sec) ==
    [Name |-> StrCell(name),
     Usability_Rating |-> IntCell(usability),
     Accuracy_Relevance_Rating |-> IntCell(accuracy),
     Suggestions |-> StrCell(suggestions),
     Timestamp |-> StrCell(Timestamp(sec))]

\* The names an earlier submission may have been made under.
EarlierNames == {n \in NameInputs : ~NameMissing(n)} \cup { <<"0", "7">> }

\* The rows an earlier submission may have left in feedback.csv.
InitialRows ==
    { to_csv(<<Entry(name, DefaultRating, DefaultRating, <<>>, 0)>>) :
        name \in EarlierNames }

\* feedback.csv does not exist yet, or holds what one submission wrote.
Init ==
    /\ store \in {Absent} \cup {File(rows) : rows \in InitialRows}
    /\ submits = 0
    /\ lastWrite = NoWrite
    /\ pc = [s \in Sessions |-> "idle"]
    /\ feedback_entry = [s \in Sessions |-> NoEntry]
    /\ contents = [s \in Sessions |-> Unbound]
    /\ found = [s \in Sessions |-> "none"]
    /\ df_updated = [s \in Sessions |-> <<>>]
    /\ outcome = [s \in Sessions |-> "none"]
    /\ storeCalls = [s \in Sessions |-> 0]
    /\ writeCalls = [s \in Sessions |-> 0]
    /\ df_feedback = [s \in Sessions |-> NoTable]
    /\ return_probability = -1
    /\ prediction = "none"
    /\ risk_message = "none"

(* --------------------------- risk prediction --------------------------- *)

\* A label that follows the at-or-above rule.
Likely_AtOrAbove(k) == k * ThresholdDen >= ThresholdNum * ProbSteps

\* return_probability > 0.05
Likely(k) == k * ThresholdDen > ThresholdNum * ProbSteps

\* return_probability <= 0.05
LowRisk(k) == k * ThresholdDen <= ThresholdNum * ProbSteps

\* The "Predict Return Chance" button, the classifier returning k/ProbSteps.
Predict(k) ==
    /\ return_probability' = k
    /\ prediction' = IF Likely(k) THEN "Return Likely" ELSE "Return Unlikely"
    /\ risk_message' = IF LowRisk(k) THEN "Low Risk" ELSE "High Risk"
    /\ UNCHANGED feedbackVars

(* ---------------------------- feedback form ---------------------------- *)

\* The form is submitted at second `sec`: a fresh script run, the handler up
\* to the name check.
Submit(s, name, usability, accuracy, suggestions, sec) ==
    /\ pc[s] = "idle"
    /\ submits < MaxSubmits
    /\ submits' = submits + 1
    /\ feedback_entry' = [feedback_entry EXCEPT
                            ![s] = Entry(name, usability, accuracy, suggestions, sec)]
    /\ contents' = [contents EXCEPT ![s] = Unbound]
    /\ found' = [found EXCEPT ![s] = "none"]
    /\ df_updated' = [df_updated EXCEPT ![s] = <<>>]
    /\ df_feedback' = [df_feedback EXCEPT ![s] = NoTable]
    /\ storeCalls' = [storeCalls EXCEPT ![s] = 0]
    /\ writeCalls' = [writeCalls EXCEPT ![s] = 0]
    /\ IF NameMissing(name)
       THEN /\ outcome' = [outcome EXCEPT ![s] = "name_error"]
            /\ pc' = [pc EXCEPT ![s] = "table"]
       ELSE /\ outcome' = [outcome EXCEPT ![s] = "none"]
            /\ pc' = [pc EXCEPT ![s] = "get_repo"]
    /\ UNCHANGED <<store, lastWrite, predictVars>>

\* g.get_repo(...) raises: the outer except shows the error.
GetRepoRaises(s) ==
    /\ pc[s] = "get_repo"
    /\ pc' = [pc EXCEPT ![s] = "table"]
    /\ outcome' = [outcome EXCEPT ![s] = "error"]
    /\ storeCalls' = [storeCalls EXCEPT ![s] = @ + 1]
    /\ UNCHANGED <<store, submits, lastWrite, feedback_entry, contents, found,
                   df_updated, writeCalls, df_feedback, predictVars>>

\* g.get_repo(...) answers and repo.get_contents(...) returns the file's
\* metadata: `contents` is bound.
GetContentsOk(s) ==
    /\ pc[s] = "get_repo"
    /\ store.exists
    /\ contents' = [contents EXCEPT ![s] = Bound(Sha(store))]
    /\ found' = [found EXCEPT ![s] = "present"]
    /\ pc' = [pc EXCEPT ![s] = "read_csv"]
    /\ storeCalls' = [storeCalls EXCEPT ![s] = @ + 2]
    /\ UNCHANGED <<store, submits, lastWrite, feedback_entry, df_updated,
                   outcome, writeCalls, df_feedback, predictVars>>

\* A failed get_contents that is shown to the user as an error.
GetContentsRaises_Surfaced(s) ==
    /\ pc[s] = "get_repo"
    /\ found' = [found EXCEPT
                    ![s] = IF store.exists THEN "metadata_failed" ELSE "absent"]
    /\ outcome' = [outcome EXCEPT ![s] = "error"]
    /\ pc' = [pc EXCEPT ![s] = "table"]
    /\ storeCalls' = [storeCalls EXCEPT ![s] = @ + 2]
    /\ UNCHANGED <<store, submits, lastWrite, feedback_entry, contents,
                   df_updated, writeCalls, df_feedback, predictVars>>

\* A failed get_contents after which the new row is left out of the table.
GetContentsRaises_NoRow(s) ==
    /\ pc[s] = "get_repo"
    /\ found' = [found EXCEPT
                    ![s] = IF store.exists THEN "metadata_failed" ELSE "absent"]
    /\ df_updated' = [df_updated EXCEPT ![s] = <<>>]
    /\ pc' = [pc EXCEPT ![s] = "write"]
    /\ storeCalls' = [storeCalls EXCEPT ![s] = @ + 2]
    /\ UNCHANGED <<store, submits, lastWrite, feedback_entry, contents,
                   outcome, writeCalls, df_feedback, predictVars>>

\* g.get_repo(...) answers and repo.get_contents(...) raises (no such file,
\* or the request failed): the bare except builds the one-row table and
\* `contents` stays unbound.
GetContentsRaises(s) ==
    /\ pc[s] = "get_repo"
    /\ found' = [found EXCEPT
                    ![s] = IF store.exists THEN "metadata_failed" ELSE "absent"]
    /\ df_updated' = [df_updated EXCEPT ![s] = <<feedback_entry[s]>>]
    /\ pc' = [pc EXCEPT ![s] = "write"]
    /\ storeCalls' = [storeCalls EXCEPT ![s] = @ + 2]
    /\ UNCHANGED <<store, submits, lastWrite, feedback_entry, contents,
                   outcome, writeCalls, df_feedback, predictVars>>

\* pd.read_csv(raw_url) returns the table; the new row is appended to it.
ReadCsvOk(s) ==
    /\ pc[s] = "read_csv"
    /\ store.exists
    /\ df_updated' = [df_updated EXCEPT
                        ![s] = concat(read_csv(store.rows), feedback_entry[s])]
    /\ pc' = [pc EXCEPT ![s] = "write"]
    /\ storeCalls' = [storeCalls EXCEPT ![s] = @ + 1]
    /\ UNCHANGED <<store, submits, lastWrite, feedback_entry, contents, found,
                   outcome, writeCalls, df_feedback, predictVars>>

\* pd.read_csv(raw_url) raises: the same bare except builds the one-row
\* table, with `contents` bound by the line before.
ReadCsvRaises(s) ==
    /\ pc[s] = "read_csv"
    /\ found' = [found EXCEPT ![s] = "body_failed"]
    /\ df_updated' = [df_updated EXCEPT ![s] = <<feedback_entry[s]>>]
    /\ pc' = [pc EXCEPT ![s] = "write"]
    /\ storeCalls' = [storeCalls EXCEPT ![s] = @ + 1]
    /\ UNCHANGED <<store, submits, lastWrite, feedback_entry, contents,
                   outcome, writeCalls, df_feedback, predictVars>>

\* A store that takes any write.
StoreAccepts_Any(s) == TRUE

\* The store takes update_file(sha=contents.sha) when the file's sha is the
\* one sent, and create_file when there is no such file.
StoreAccepts(s) ==
    IF contents[s].bound
    THEN store.exists /\ Sha(store) = contents[s].sha
    ELSE ~store.exists

\* update_file / create_file succeeds: the file is csv_content, the success
\* message is shown and st.rerun() starts the script again.
WriteOk(s) ==
    /\ pc[s] = "write"
    /\ StoreAccepts(s)
    /\ store' = File(to_csv(df_updated[s]))
    /\ lastWrite' = [by |-> s, found |-> found[s], contents |-> contents[s],
                     before |-> store]
    /\ outcome' = [outcome EXCEPT ![s] = "success"]
    /\ pc' = [pc EXCEPT ![s] = "table"]
    /\ storeCalls' = [storeCalls EXCEPT ![s] = @ + 1]
    /\ writeCalls' = [writeCalls EXCEPT ![s] = @ + 1]
    /\ UNCHANGED <<submits, feedback_entry, contents, found, df_updated,
                   df_feedback, predictVars>>

\* A failed write that is tried again.
WriteRaises_Retry(s) ==
    /\ pc[s] = "write"
    /\ outcome' = [outcome EXCEPT ![s] = "error"]
    /\ storeCalls' = [storeCalls EXCEPT ![s] = @ + 1]
    /\ writeCalls' = [writeCalls EXCEPT ![s] = @ + 1]
    /\ UNCHANGED <<pc, store, submits, lastWrite, feedback_entry, contents,
                   found, df_updated, df_feedback, predictVars>>

\* update_file / create_file raises (request failed, or the store refused
\* it): the outer except shows the error; the script goes on to the table.
WriteRaises(s) ==
    /\ pc[s] = "write"
    /\ outcome' = [outcome EXCEPT ![s] = "error"]
    /\ pc' = [pc EXCEPT ![s] = "table"]
    /\ storeCalls' = [storeCalls EXCEPT ![s] = @ + 1]
    /\ writeCalls' = [writeCalls EXCEPT ![s] = @ + 1]
    /\ UNCHANGED <<store, submits, lastWrite, feedback_entry, contents, found,
                   df_updated, df_feedback, predictVars>>

(* ---------------------------- feedback table --------------------------- *)

\* The feedback table section is drawn and the script run ends: the run's
\* locals and messages are gone, the table stays as drawn.
EndRun(s, shown) ==
    /\ pc[s] = "table"
    /\ df_feedback' = [df_feedback EXCEPT ![s] = shown]
    /\ pc' = [pc EXCEPT ![s] = "idle"]
    /\ feedback_entry' = [feedback_entry EXCEPT ![s] = NoEntry]
    /\ contents' = [contents EXCEPT ![s] = Unbound]
    /\ found' = [found EXCEPT ![s] = "none"]
    /\ df_updated' = [df_updated EXCEPT ![s] = <<>>]
    /\ outcome' = [outcome EXCEPT ![s] = "none"]
    /\ storeCalls' = [storeCalls EXCEPT ![s] = 0]
    /\ writeCalls' = [writeCalls EXCEPT ![s] = 0]
    /\ UNCHANGED <<store, submits, lastWrite, predictVars>>

\* get_contents answers and its decoded content is parsed and shown.
RenderTable(s) ==
    /\ store.exists
    /\ EndRun(s, [kind |-> "table", df |-> read_csv(store.rows)])

\* get_contents raises: "No feedback submitted yet."
RenderNone(s) == EndRun(s, [kind |-> "none", df |-> <<>>])

\* get_repo raises: "Unable to load feedback from GitHub".
RenderUnavailable(s) == EndRun(s, [kind |-> "unavailable", df |-> <<>>])

Next ==
    \/ \E s \in Sessions, name \in NameInputs, usability \in RatingInputs,
          accuracy \in RatingInputs, suggestions \in SuggestionInputs,
          sec \in Seconds :
            Submit(s, name, usability, accuracy, suggestions, sec)
    \/ \E s \in Sessions : GetRepoRaises(s)
    \/ \E s \in Sessions : GetContentsOk(s)
    \/ \E s \in Sessions : GetContentsRaises(s)
    \/ \E s \in Sessions : ReadCsvOk(s)
    \/ \E s \in Sessions : ReadCsvRaises(s)
    \/ \E s \in Sessions : WriteOk(s)
    \/ \E s \in Sessions : WriteRaises(s)
    \/ \E s \in Sessions : RenderTable(s)
    \/ \E s \in Sessions : RenderNone(s)
    \/ \E s \in Sessions : RenderUnavailable(s)

Spec == Init /\ [][Next]_vars

NextPredict == \E k \in 0..ProbSteps : Predict(k)

SpecPredict == Init /\ [][NextPredict]_vars

(* ------------------------------- claims ------------------------------- *)

\* The submitted record as the line to_csv is to write for it.
RecordLine(s) ==
    [Name |-> feedback_entry[s].Name.s,
     Usability_Rating |-> StrOfInt(feedback_entry[s].Usability_Rating.n),
     Accuracy_Relevance_Rating |-> StrOfInt(feedback_entry[s].Accuracy_Relevance_Rating.n),
     Suggestions |-> feedback_entry[s].Suggestions.s,
     Timestamp |-> feedback_entry[s].Timestamp.s]

IsPrefix(a, b) == Len(a) <= Len(b) /\ SubSeq(b, 1, Len(a)) = a

\* Session s is at its write and this step is its update_file / create_file.
WriteStep(s) == pc[s] = "write" /\ (pc'[s] # "write" \/ writeCalls'[s] # writeCalls[s])

\* The reads of this run failed to fetch the current contents.
FetchFailed(f) == f \in {"absent", "metadata_failed", "body_failed"}

\* Session t read the state the last accepted write was based on, and that
\* write was another session's.
ReadSameState(t) ==
    /\ lastWrite.by \notin {"nobody", t}
    /\ \/ lastWrite.found = "present" /\ found[t] = "present"
          /\ lastWrite.contents = contents[t]
       \/ lastWrite.found = "absent" /\ found[t] = "absent"

\* The last accepted write changed the resource.
FirstWriteChanged == store # lastWrite.before

\* C1: a successful submission on a store of n >= 1 rows leaves those n rows
\* unchanged and in order, followed by the submitted record as the last row.
C1_AppendKeepsPriorRows ==
    [][\A s \in Sessions :
        (WriteStep(s) /\ outcome'[s] = "success" /\ store.exists /\ Len(store.rows) >= 1)
            => store' = File(Append(store.rows, RecordLine(s)))]_vars

\* C2 as stated: of two executions that read the same prior state, the second
\* writer's overwrite is accepted by the store.
C2_SecondOverwriteAccepted ==
    \A t \in Sessions :
        (pc[t] = "write" /\ ReadSameState(t)) => StoreAccepts(t)

\* C2 as amended: of two executions that read the same prior state, once the
\* first write has changed the resource the second writer's write leaves the
\* store as the first writer wrote it and the second writer is shown an error.
C2_SecondWriteRejected ==
    [][\A t \in Sessions :
        (WriteStep(t) /\ ReadSameState(t) /\ FirstWriteChanged)
            => (store' = store /\ outcome'[t] = "error" /\ lastWrite' = lastWrite)]_vars

C2_Witness ==
    \E t \in Sessions :
        /\ pc[t] = "table" /\ outcome[t] = "error" /\ writeCalls[t] = 1
        /\ ReadSameState(t) /\ FirstWriteChanged
        /\ found[t] = "present"
        /\ store.rows[Len(store.rows)].Name # feedback_entry[t].Name.s

\* C3: an update carries the sha read in the same execution and the store
\* refuses it, keeping its contents, when the file's sha is no longer that one;
\* a create is refused when the file exists.
C3_StaleWriteRefused ==
    [][\A s \in Sessions :
        WriteStep(s) =>
            /\ contents[s].bound <=> found[s] \in {"present", "body_failed"}
            /\ (contents[s].bound /\ store # File(contents[s].sha))
                   => (store' = store /\ outcome'[s] = "error")
            /\ (~contents[s].bound /\ store.exists)
                   => (store' = store /\ outcome'[s] = "error")]_vars

C3_Witness ==
    \E s \in Sessions :
        /\ pc[s] = "table" /\ outcome[s] = "error" /\ writeCalls[s] = 1
        /\ contents[s].bound /\ store # File(contents[s].sha)

\* C4: the table only grows at its end: every row once in the store stays
\* there, unchanged and in its place, whatever the submissions' outcomes.
C4_RowsNeverLost ==
    [][store.exists => (store'.exists /\ IsPrefix(store.rows, store'.rows))]_vars

\* C5: a failed fetch of the current contents (file absent, failed metadata
\* request, failed read of the body) is not shown as an error: the handler
\* goes on to its write with a table made of the new record alone.
C5_FetchFailureNotSurfaced ==
    [][\A s \in Sessions :
        /\ (found'[s] # found[s] /\ FetchFailed(found'[s]))
               => (pc'[s] = "write" /\ outcome'[s] = "none"
                   /\ df_updated'[s] = <<feedback_entry[s]>>)
        /\ (WriteStep(s) /\ FetchFailed(found[s]))
               => /\ writeCalls'[s] = 1
                  /\ outcome'[s] = "success" => store' = File(<<RecordLine(s)>>)]_vars

C5_Witness ==
    \E s \in Sessions :
        /\ pc[s] = "table" /\ outcome[s] = "success" /\ writeCalls[s] = 1
        /\ FetchFailed(found[s])
        /\ store = File(<<RecordLine(s)>>)

\* C6: a failed write is shown as an error and never as success, is issued
\* once and not again, and leaves the store as it was, without the record.
C6_WriteFailureSurfaced ==
    [][\A s \in Sessions :
        /\ (WriteStep(s) /\ outcome'[s] # "success")
               => (outcome'[s] = "error" /\ store' = store
                   /\ pc'[s] = "table" /\ writeCalls'[s] = 1)
        /\ outcome[s] = "error" => outcome'[s] # "success"
        /\ (pc[s] = "table" /\ pc'[s] # "table" /\ outcome[s] = "error")
               => (store' = store /\ pc'[s] = "idle")]_vars

C6_Witness ==
    \E s \in Sessions :
        /\ pc[s] = "table" /\ outcome[s] = "error" /\ writeCalls[s] = 1
        /\ \A i \in 1..Len(store.rows) : store.rows[i] # RecordLine(s)

\* The name is empty or nothing but spaces.
IsBlank(name) == \A i \in 1..Len(name) : name[i] = " "

\* C7: a submission whose name is empty or whitespace only is rejected with
\* the name message before any request to the store, and the store is unchanged.
C7_BlankNameRejectedLocally ==
    [][\A s \in Sessions :
        /\ (pc[s] = "idle" /\ pc'[s] # "idle" /\ IsBlank(feedback_entry'[s].Name.s))
               => (outcome'[s] = "name_error" /\ pc'[s] = "table"
                   /\ storeCalls'[s] = 0 /\ writeCalls'[s] = 0 /\ store' = store)
        /\ outcome'[s] = "name_error" => (storeCalls'[s] = 0 /\ writeCalls'[s] = 0)]_vars

C7_Witness ==
    \E s \in Sessions :
        /\ pc[s] = "table" /\ outcome[s] = "name_error"
        /\ feedback_entry[s].Name.s = <<" ">>
        /\ storeCalls[s] = 0

C9_AtOrAboveRule ==
    return_probability >= 0 =>
        /\ prediction = "Return Likely" <=> Likely_AtOrAbove(return_probability)
        /\ risk_message = "High Risk" <=> Likely_AtOrAbove(return_probability)

\* C9 as amended: the label is "likely", with the high-risk message, exactly
\* when the probability is strictly above the threshold; a probability equal
\* to the threshold gives "unlikely" and the low-risk message.
C9_StrictlyAboveRule ==
    return_probability >= 0 =>
        LET above == return_probability * ThresholdDen > ThresholdNum * ProbSteps IN
        /\ prediction = (IF above THEN "Return Likely" ELSE "Return Unlikely")
        /\ risk_message = (IF above THEN "High Risk" ELSE "Low Risk")

C9_Witness ==
    /\ return_probability * ThresholdDen = ThresholdNum * ProbSteps
    /\ prediction = "Return Unlikely"
    /\ risk_message = "Low Risk"

\* C10: while the store holds what a session has just written, the table a
\* read returns is, line for line, the table that was written: for the read
\* that draws the feedback table and for the read the next append starts from.
C10_ReadReturnsWhatWasWritten ==
    [][\A s \in Sessions :
        (pc[s] = "table" /\ outcome[s] = "success" /\ store = File(to_csv(df_updated[s])))
            => /\ df_feedback'[s].kind = "table"
                   => to_csv(df_feedback'[s].df) = to_csv(df_updated[s])
               /\ \A t \in Sessions :
                    (pc[t] = "read_csv" /\ pc'[t] = "write" /\ found'[t] = "present")
                        => to_csv(df_updated'[t])
                             = Append(to_csv(df_updated[s]), RecordLine(t))]_vars

====
